---- MODULE Spec2Model ----
(***************************************************************************)
(* Model of archivertools/__init__.py: the Archiver class (construction,   *)
(* addURL, addFile, commit) over the three sqlite tables runs_metadata,    *)
(* files and child_urls.                                                   *)
(*                                                                         *)
(* External collaborators are modelled by their contract at the call site: *)
(* requests.get/post answer with a response or raise ConnectionError,      *)
(* the sqlite store inserts a row or raises, jwt.decode verifies or        *)
(* raises, hashlib.sha256 is an iterated compression of the bytes fed to   *)
(* it (8 bit wide here) followed by a hex encoding.                        *)
(***************************************************************************)
EXTENDS Integers, Sequences, FiniteSets, TLC

VARIABLES
    pyMajor,        \* sys.version_info.major of the interpreter
    clock,          \* what datetime.now() returns
    runs_metadata,  \* table runs_metadata, rows in insertion order
    files,          \* table files
    child_urls,     \* table child_urls
    archivers,      \* the constructed Archiver instances
    pc,             \* position of the interpreter inside commit / __getJWT
    token,          \* local `token` of __getJWT
    pubkey,         \* local `pubkey` of __getJWT
    calls,          \* network calls made by the latest call, in order
    last,           \* the latest call: its arguments and how it ended
    hcase,          \* the hashing case of HashSpec
    writer,         \* the instance whose session holds sqlite's write lock, or 0
    session         \* per instance, the local `session` of __add in a call
                    \* of addURL that runs beside the calls of other instances

vars == <<pyMajor, clock, runs_metadata, files, child_urls, archivers,
          pc, token, pubkey, calls, last, hcase, writer, session>>

storeVars == <<runs_metadata, files, child_urls>>
commitVars == <<pc, token, pubkey>>
sessionVars == <<writer, session>>

----------------------------------------------------------------------------
(* Bounds of the model *)

MaxLen == 2        \* longest response body / file, in bytes
MaxRuns == 2       \* Archiver instances
MaxRunRows == 1    \* Archiver instances of RunSpec
MaxFiles == 1      \* rows of table files
MaxChildRows == 3  \* rows of table child_urls
MaxClock == 1      \* latest value of datetime.now()
MaxBuf == 2        \* largest buffer_size passed to addFile
HashMaxLen == 4    \* longest byte sequence of HashSpec

ByteVals == {65, 200}              \* an ASCII byte and a byte >= 128
Urls == {"u1", "u2"}
UUIDs == {"uuid"}
Filenames == {"f"}
Comments == {"None"}
HeaderDicts == {<<>>, <<"Content-Type">>}
FetchStatuses == {200, 404}
ReportStatuses == {200, 204, 304, 404}
IdentStatuses == {200, 401}
BufferSizes == (0 - 1) .. MaxBuf
Instances == 1 .. MaxRuns

RECURSIVE SeqsUpTo(_, _)
SeqsUpTo(S, n) ==
    IF n = 0 THEN {<<>>}
    ELSE LET shorter == SeqsUpTo(S, n - 1)
         IN  shorter \cup {Append(s, x) : s \in shorter, x \in S}

ByteSeqs == SeqsUpTo(ByteVals, MaxLen)

----------------------------------------------------------------------------
(* hashlib.sha256: hasher object, update, hexdigest *)

HexDigits == <<"0", "1", "2", "3", "4", "5", "6", "7",
               "8", "9", "a", "b", "c", "d", "e", "f">>

\* hashlib.sha256(): the initial chaining value and a zero length
Sha256New == [h |-> 107, n |-> 0]

Compress(h, b) == (h * 33 + b + 1) % 256

RECURSIVE Update(_, _)
\* hasher.update(data): absorb the bytes of data in order
Update(hasher, data) ==
    IF data = <<>> THEN hasher
    ELSE Update([h |-> Compress(hasher.h, Head(data)), n |-> hasher.n + 1],
                Tail(data))

\* hasher.hexdigest(): finalise with the length, encode as hex digits
HexDigest(hasher) ==
    LET d == (hasher.h + 7 * hasher.n) % 256
    IN  <<HexDigits[(d \div 16) + 1], HexDigits[(d % 16) + 1]>>

\* hashlib.sha256(data).hexdigest()
Sha256Hex(data) == HexDigest(Update(Sha256New, data))

----------------------------------------------------------------------------
(* File object opened 'rb': read(n), read(), seek(0) *)

\* f.read(n) at position pos: at most n bytes; n < 0 reads to the end
FileRead(contents, pos, n) ==
    LET avail == Len(contents) - pos
        k == IF n < 0 \/ n > avail THEN avail ELSE n
    IN  SubSeq(contents, pos + 1, pos + k)

\* `if data:` in place of `while data:`: only the first chunk is hashed
ReadLoopOnce(contents, pos, hasher, buffer_size) ==
    LET data == FileRead(contents, pos, buffer_size)
    IN  [hasher |-> Update(hasher, data), pos |-> pos + Len(data)]

RECURSIVE ReadLoop(_, _, _, _)
\* lines 117-120: data = f.read(buffer_size); while data: update; read again
ReadLoop(contents, pos, hasher, buffer_size) ==
    LET data == FileRead(contents, pos, buffer_size)
    IN  IF data = <<>> THEN [hasher |-> hasher, pos |-> pos]
        ELSE ReadLoop(contents, pos + Len(data), Update(hasher, data), buffer_size)

\* lines 116-123: the hashing pass; the hasher and the file position after it
HashPass(contents, buffer_size) ==
    IF buffer_size > 0
    THEN ReadLoop(contents, 0, Sha256New, buffer_size)
    ELSE LET data == FileRead(contents, 0, 0 - 1)
         IN  [hasher |-> Update(Sha256New, data), pos |-> Len(data)]

\* line 125 left out: the position stays where the hashing pass ended
SeekNone(pos) == pos

\* line 125: f.seek(0) returns the new position
SeekStart(pos) == 0

\* lines 124-126: file_contents_hash and file_contents of addFile
FileDigestAndContents(contents, buffer_size) ==
    LET pass == HashPass(contents, buffer_size)
        p == SeekStart(pass.pos)
    IN  [file_SHA256 |-> HexDigest(pass.hasher),
         file_contents |-> FileRead(contents, p, 0 - 1)]

----------------------------------------------------------------------------
(* Archiver.__init__ helpers *)

\* json.dumps(dict(r.headers)): a JSON object as a sequence of tokens
JsonDumps(h) ==
    <<"{">> \o h \o <<"}">>

RECURSIVE DropHigh(_)
DropHigh(content) ==
    IF content = <<>> THEN <<>>
    ELSE IF Head(content) >= 128 THEN DropHigh(Tail(content))
    ELSE <<Head(content)>> \o DropHigh(Tail(content))

\* an encode that skips what it cannot decode instead of raising
EncodeUtf8Ignore(content) == [exc |-> "none", bytes |-> DropHigh(content)]

\* Python 2 str.encode('utf-8'): an implicit ASCII decode first, which
\* raises UnicodeDecodeError on any byte >= 128
EncodeUtf8Py2(content) ==
    IF \E k \in 1 .. Len(content) : content[k] >= 128
    THEN [exc |-> "UnicodeDecodeError", bytes |-> <<>>]
    ELSE [exc |-> "none", bytes |-> content]

\* lines 34-41: self.content_hash
ContentHash(major, content) ==
    IF major = 2
    THEN LET e == EncodeUtf8Py2(content)
         IN  IF e.exc = "none"
             THEN [exc |-> "none", hex |-> Sha256Hex(e.bytes)]
             ELSE [exc |-> e.exc, hex |-> <<>>]
    ELSE [exc |-> "none", hex |-> Sha256Hex(content)]

----------------------------------------------------------------------------
(* The store: sqlite through sqlalchemy sessions *)

\* what the store can answer to an insert besides its constraint checks
StoreFaults == {"none", "OperationalError"}

\* str(e) of the exception sqlalchemy raises: the reason given by sqlite,
\* then the statement and its parameters
ExcText(reason, params) == <<reason>> \o params

\* 'phrase' in str(e)
Contains(text, phrase) == \E k \in 1 .. Len(text) : text[k] = phrase

\* _ChildURL.url is unique=True: the insert of url violates the constraint
UniqueViolation(table, url) ==
    \E k \in 1 .. Len(table) : table[k].url = url

\* INTEGER PRIMARY KEY: the rowid the store assigns to a new row
NextId(table) == Len(table) + 1

\* session.merge in place of session.add with a key that is not fresh: the
\* row written last is overwritten
AddRowMerge(table, row, fault) ==
    IF fault # "none"
    THEN [exc |-> fault, text |-> ExcText("database is locked", <<>>), table |-> table]
    ELSE IF table = <<>>
    THEN [exc |-> "none", text |-> <<>>, table |-> <<row>>]
    ELSE [exc |-> "none", text |-> <<>>,
          table |-> [table EXCEPT ![Len(table)] = row]]

\* __add (session.add + session.commit) of a row the schema puts no
\* constraint on besides its primary key: runs_metadata and files
AddRow(table, row, fault) ==
    IF fault # "none"
    THEN [exc |-> fault, text |-> ExcText("database is locked", <<>>), table |-> table]
    ELSE [exc |-> "none", text |-> <<>>, table |-> Append(table, row)]

\* _ChildURL without unique=True on url
AddChildNoUnique(table, row, fault) ==
    IF fault # "none"
    THEN [exc |-> fault, text |-> ExcText("database is locked", <<row.url>>),
          table |-> table]
    ELSE [exc |-> "none", text |-> <<>>, table |-> Append(table, row)]

\* _ChildURL with unique=True on run_id, the next column, instead of url
AddChildUniqueRun(table, row, fault) ==
    IF fault # "none"
    THEN [exc |-> fault, text |-> ExcText("database is locked", <<row.url>>),
          table |-> table]
    ELSE IF \E k \in 1 .. Len(table) : table[k].run_id = row.run_id
    THEN [exc |-> "IntegrityError",
          text |-> ExcText("UNIQUE constraint failed", <<row.url>>),
          table |-> table]
    ELSE [exc |-> "none", text |-> <<>>, table |-> Append(table, row)]

\* an insert that resolves the conflict on url by replacing the old row
\* (INSERT OR REPLACE, session.merge on url)
AddChildReplace(table, row, fault) ==
    IF fault # "none"
    THEN [exc |-> fault, text |-> ExcText("database is locked", <<row.url>>),
          table |-> table]
    ELSE IF UniqueViolation(table, row.url)
    THEN [exc |-> "none", text |-> <<>>,
          table |-> [k \in 1 .. Len(table) |->
                        IF table[k].url = row.url
                        THEN [row EXCEPT !.url_id = table[k].url_id]
                        ELSE table[k]]]
    ELSE [exc |-> "none", text |-> <<>>, table |-> Append(table, row)]

\* __add of a _ChildURL row: the unique constraint on url is checked by the
\* insert. Returns the exception, its text and the table afterwards.
AddChild(table, row, fault) ==
    IF fault # "none"
    THEN [exc |-> fault, text |-> ExcText("database is locked", <<row.url>>),
          table |-> table]
    ELSE IF UniqueViolation(table, row.url)
    THEN [exc |-> "IntegrityError",
          text |-> ExcText("UNIQUE constraint failed", <<row.url>>),
          table |-> table]
    ELSE [exc |-> "none", text |-> <<>>, table |-> Append(table, row)]

\* an except clause that catches every store error and looks at its text only
AddURLRaisesTextOnly(exc, text) ==
    IF Contains(text, "UNIQUE constraint failed")
    THEN "none"
    ELSE exc

\* addURL without its try/except around __add
AddURLReraises(exc, text) == exc

\* lines 93-99: the exception addURL lets through to its caller
AddURLRaises(exc, text) ==
    IF exc = "IntegrityError" /\ Contains(text, "UNIQUE constraint failed")
    THEN "none"
    ELSE exc

----------------------------------------------------------------------------
(* State after import of the module: empty tables, no instance *)

\* the local `token` before line 74 has run
NoToken == [form |-> "unset", alg |-> "", signer |-> "", expired |-> FALSE]

\* `last`: op is the method, inst the instance, arg its url / filename,
\* status the fetch status (init) or buffer_size (addFile), present tells
\* whether the url was in child_urls (addURL), the file readable (addFile),
\* the API key set (commit); fault is what the store answered; exc is the
\* exception that reached the caller, "none" for a normal return and
\* "running" while commit has not returned
NoCall == [op |-> "none", inst |-> 0, arg |-> "", status |-> 0,
           present |-> FALSE, fault |-> "none", exc |-> "none"]

NoCase == [phase |-> "unused", B |-> <<>>, c |-> 0, chunked |-> <<>>, whole |-> <<>>]

\* run_id read from an object whose INSERT has not been flushed: None
RunIdUnset(archiver) == 0

\* lines 88 and 127: self.run_metadata.run_id, the key the store gave the
\* run row in __init__ (expire_on_commit=False keeps it on the object)
RunIdOf(archiver) == archiver.run_id

\* `session` of an instance: step is how far __add has come ("none": no call
\* of addURL yet, "added": after session.add, "flushed": INSERT sent inside
\* session.commit, "closed": the call is over), row the _ChildURL object,
\* present whether the url had a row when the call began, fault what the
\* store answered, exc what the call raised
NoSession == [step |-> "none",
              row |-> [url_id |-> 0, url |-> "", run_id |-> 0, timestamp |-> 0],
              present |-> FALSE, fault |-> "none", exc |-> "none"]

\* Under any other major version than 2 or 3 __init__ leaves content_hash
\* unset and raises at line 49, so no instance ever exists.
Init ==
    /\ pyMajor \in {2, 3}
    /\ clock = 0
    /\ runs_metadata = <<>>
    /\ files = <<>>
    /\ child_urls = <<>>
    /\ archivers = <<>>
    /\ pc = "idle"
    /\ token = NoToken
    /\ pubkey = "unset"
    /\ calls = <<>>
    /\ last = NoCall
    /\ hcase = NoCase
    /\ writer = 0
    /\ session = [i \in Instances |-> NoSession]

\* datetime.now() advances between calls
Tick ==
    /\ clock < MaxClock
    /\ clock' = clock + 1
    /\ UNCHANGED <<pyMajor, storeVars, archivers, commitVars, calls, last, hcase, sessionVars>>

\* a network call raises ConnectionError, or answers with a status and a body
NetResults(statuses, bodies) ==
    [raised : {TRUE}, status : {0}, content : {CHOOSE b \in bodies : TRUE}] \cup
    [raised : {FALSE}, status : statuses, content : bodies]

\* a requests call followed by raise_for_status
RequestRaisesForStatus(r) ==
    IF r.raised THEN "ConnectionError"
    ELSE IF r.status >= 400 /\ r.status < 600 THEN "HTTPError"
    ELSE "none"

\* the exception a requests call raises by itself: none for any response
RequestRaises(r) == IF r.raised THEN "ConnectionError" ELSE "none"

----------------------------------------------------------------------------
(* Archiver.__init__(url, UUID), lines 27-53 *)

\* what requests.get(url) gives: a response with headers, or it raises
FetchResults(statuses, headerDicts, bodies) ==
    [raised : {TRUE}, status : {0}, headers : {<<>>}, content : {<<>>}] \cup
    [raised : {FALSE}, status : statuses, headers : headerDicts, content : bodies]

Construct(url, UUID, r, fault) ==
    /\ pc = "idle"
    /\ LET current_time == clock
           fetchExc == RequestRaises(r)
           hash == ContentHash(pyMajor, r.content)
           headers == JsonDumps(r.headers)
           row == [run_id |-> NextId(runs_metadata), url |-> url, UUID |-> UUID,
                   timestamp |-> current_time, body_content |-> r.content,
                   body_SHA256 |-> hash.hex, headers |-> headers]
           added == AddRow(runs_metadata, row, fault)
           exc == IF fetchExc # "none" THEN fetchExc
                  ELSE IF hash.exc # "none" THEN hash.exc
                  ELSE added.exc
       IN  /\ runs_metadata' = IF fetchExc = "none" /\ hash.exc = "none"
                               THEN added.table ELSE runs_metadata
           /\ archivers' = IF exc = "none"
                           THEN Append(archivers,
                                    [url |-> url, content |-> r.content,
                                     content_hash |-> hash.hex, headers |-> headers,
                                     run_id |-> row.run_id])
                           ELSE archivers
           /\ calls' = <<[call |-> "fetch", status |-> r.status]>>
           /\ last' = [op |-> "init", inst |-> IF exc = "none" THEN Len(archivers) + 1 ELSE 0,
                       arg |-> url, status |-> r.status, present |-> FALSE,
                       fault |-> IF fetchExc = "none" /\ hash.exc = "none"
                                 THEN fault ELSE "none",
                       exc |-> exc]
    /\ UNCHANGED <<pyMajor, clock, files, child_urls, commitVars, hcase, sessionVars>>

----------------------------------------------------------------------------
(* Archiver.addURL(url), lines 84-99 *)

\* url is the url of some row of child_urls
UrlPresent(table, url) == \E k \in 1 .. Len(table) : table[k].url = url

AddURL(i, url, fault) ==
    /\ pc = "idle"
    /\ i \in 1 .. Len(archivers)
    /\ LET current_time == clock
           child_url == [url_id |-> NextId(child_urls), url |-> url,
                         run_id |-> RunIdOf(archivers[i]), timestamp |-> current_time]
           added == AddChild(child_urls, child_url, fault)
       IN  /\ child_urls' = added.table
           /\ last' = [op |-> "addURL", inst |-> i, arg |-> url, status |-> 0,
                       present |-> UrlPresent(child_urls, url),
                       fault |-> fault, exc |-> AddURLRaises(added.exc, added.text)]
    /\ calls' = <<>>
    /\ UNCHANGED <<pyMajor, clock, runs_metadata, files, archivers, commitVars, hcase, sessionVars>>

----------------------------------------------------------------------------
(* addURL of several instances side by side: every call of __add has its own
   session and connection, and session.commit sends INSERT, then COMMIT.
   sqlite lets one connection write at a time: the INSERT takes the write
   lock of the database file and COMMIT gives it back. *)

\* lines 87-92 and 59-60: the _ChildURL object is built and session.add
\* puts it in the new session; the store is not touched yet
SessionAdd(i, url) ==
    /\ i \in 1 .. Len(archivers)
    /\ session[i].step \in {"none", "closed"}
    /\ LET current_time == clock
           child_url == [url_id |-> 0, url |-> url,
                         run_id |-> RunIdOf(archivers[i]), timestamp |-> current_time]
       IN  session' = [session EXCEPT ![i] =
                          [step |-> "added", row |-> child_url,
                           present |-> UrlPresent(child_urls, url),
                           fault |-> "none", exc |-> "running"]]
    /\ UNCHANGED <<pyMajor, clock, storeVars, archivers, commitVars, calls, last,
                   hcase, writer>>

\* line 61, first half: session.commit flushes, the INSERT waits for the
\* write lock (a wait that outlasts the connection's timeout ends with
\* OperationalError, database is locked) and checks the unique index
SessionFlush(i, fault) ==
    /\ i \in 1 .. Len(archivers)
    /\ session[i].step = "added"
    /\ fault = "none" => writer = 0
    /\ LET row == [session[i].row EXCEPT !.url_id = NextId(child_urls)]
           added == AddChild(child_urls, row, fault)
       IN  IF added.exc = "none"
           THEN /\ writer' = i
                /\ session' = [session EXCEPT ![i].step = "flushed", ![i].row = row]
           ELSE /\ writer' = writer
                /\ session' = [session EXCEPT
                                  ![i].step = "closed",
                                  ![i].fault = fault,
                                  ![i].exc = AddURLRaises(added.exc, added.text)]
    /\ UNCHANGED <<pyMajor, clock, storeVars, archivers, commitVars, calls, last,
                   hcase>>

\* line 61, second half: COMMIT makes the row visible to the other
\* connections and gives the write lock back
SessionCommit(i, fault) ==
    /\ i \in 1 .. Len(archivers)
    /\ session[i].step = "flushed"
    /\ writer' = 0
    /\ IF fault = "none"
       THEN /\ child_urls' = Append(child_urls, session[i].row)
            /\ session' = [session EXCEPT ![i].step = "closed", ![i].exc = "none"]
       ELSE /\ child_urls' = child_urls
            /\ session' = [session EXCEPT
                              ![i].step = "closed",
                              ![i].fault = fault,
                              ![i].exc = AddURLRaises(fault,
                                             ExcText("database is locked",
                                                     <<session[i].row.url>>))]
    /\ UNCHANGED <<pyMajor, clock, runs_metadata, files, archivers, commitVars,
                   calls, last, hcase>>

----------------------------------------------------------------------------
(* Archiver.addFile(filename, comments, buffer_size), lines 102-134 *)

\* what open(filename, 'rb') finds: the bytes of the file, a file that
\* cannot be opened, or one that opens and then fails to be read
FileStates(contents) ==
    [readable : {TRUE}, readfails : {FALSE}, contents : contents] \cup
    {[readable |-> FALSE, readfails |-> FALSE, contents |-> <<>>],
     [readable |-> TRUE, readfails |-> TRUE, contents |-> <<>>]}

\* open(filename, 'ab+'): a file that is not there is created, empty
OpenCreates(file) == "none"

\* line 115: the exception open raises
OpenRaises(file) == IF file.readable THEN "none" ELSE "IOError"

\* lines 117-126: the exception f.read raises inside the with block
ReadRaises(file) == IF file.readfails THEN "IOError" ELSE "none"

AddFile(i, filename, comments, buffer_size, file, fault) ==
    /\ pc = "idle"
    /\ i \in 1 .. Len(archivers)
    /\ LET current_time == clock
           openExc == IF OpenRaises(file) # "none"
                      THEN OpenRaises(file)
                      ELSE ReadRaises(file)
           read == FileDigestAndContents(file.contents, buffer_size)
           file_object == [file_id |-> NextId(files), run_id |-> RunIdOf(archivers[i]),
                           file_contents |-> read.file_contents, filename |-> filename,
                           file_SHA256 |-> read.file_SHA256, comments |-> comments,
                           timestamp |-> current_time]
           added == AddRow(files, file_object, fault)
           exc == IF openExc # "none" THEN openExc ELSE added.exc
       IN  /\ files' = IF openExc = "none" THEN added.table ELSE files
           /\ last' = [op |-> "addFile", inst |-> i, arg |-> filename,
                       status |-> buffer_size,
                       present |-> file.readable /\ ~file.readfails,
                       fault |-> IF openExc = "none" THEN fault ELSE "none",
                       exc |-> exc]
    /\ calls' = <<>>
    /\ UNCHANGED <<pyMajor, clock, runs_metadata, child_urls, archivers, commitVars, hcase, sessionVars>>

----------------------------------------------------------------------------
(* Archiver.commit and Archiver.__getJWT, lines 63-81 and 137-151 *)

\* what the identity service can send back as the body of POST /jwt: a
\* token signed with key K1, a tampered one, an expired one, no token at all
GoodToken == [form |-> "jwt", alg |-> "RS256", signer |-> "K1", expired |-> FALSE]
ForgedToken == [form |-> "jwt", alg |-> "RS256", signer |-> "forged", expired |-> FALSE]
ExpiredToken == [form |-> "jwt", alg |-> "RS256", signer |-> "K1", expired |-> TRUE]
WrongAlgToken == [form |-> "jwt", alg |-> "HS256", signer |-> "K1", expired |-> FALSE]
GarbageToken == [form |-> "garbage", alg |-> "", signer |-> "", expired |-> FALSE]

Tokens == {GoodToken, ForgedToken, ExpiredToken, WrongAlgToken, GarbageToken}

\* what GET /publickey can send back
PubKeys == {"K1", "K2"}

\* jwt.decode(token, pubkey, verify=False): the signature is not checked
JwtDecodeUnverified(t, k) ==
    IF t.form # "jwt" THEN "DecodeError"
    ELSE IF t.expired THEN "ExpiredSignatureError"
    ELSE "none"

\* line 77: jwt.decode(token, pubkey, algorithms=['RS256']); the exception it
\* raises, "none" when the token verifies
JwtDecode(t, k) ==
    IF t.form # "jwt" THEN "DecodeError"
    ELSE IF t.alg # "RS256" THEN "InvalidAlgorithmError"
    ELSE IF t.signer # k THEN "DecodeError"
    ELSE IF t.expired THEN "ExpiredSignatureError"
    ELSE "none"

\* line 150: r.raise_for_status() raises HTTPError for 4xx and 5xx only
RaiseForStatus(status) ==
    IF status >= 400 /\ status < 600 THEN "HTTPError" ELSE "none"

\* commit ends: exc reaches the caller ("none": a normal return); the
\* locals of __getJWT are gone
Return(exc) ==
    /\ pc' = "idle"
    /\ token' = NoToken
    /\ pubkey' = "unset"
    /\ last' = [last EXCEPT !.exc = exc]

\* a lookup that falls back to a default: os.environ.get('MORPH_DT_API_KEY')
KeyLookupDefault(keySet) == "none"

\* lines 67-72: os.environ['MORPH_DT_API_KEY'] raises KeyError when unset
KeyLookupRaises(keySet) == IF keySet THEN "none" ELSE "KeyError"

\* commit is called on instance i; __getJWT starts by reading the API key
CommitCall(i, keySet) ==
    /\ pc = "idle"
    /\ i \in 1 .. Len(archivers)
    /\ calls' = <<>>
    /\ last' = [op |-> "commit", inst |-> i, arg |-> "", status |-> 0,
                present |-> keySet, fault |-> "none",
                exc |-> IF KeyLookupRaises(keySet) = "none"
                        THEN "running" ELSE KeyLookupRaises(keySet)]
    /\ pc' = IF KeyLookupRaises(keySet) = "none" THEN "post_jwt" ELSE "idle"
    /\ UNCHANGED <<pyMajor, clock, storeVars, archivers, token, pubkey, hcase, sessionVars>>

\* the token request in a loop that tries again when the call raises
PostJwtRetry(r) ==
    /\ pc = "post_jwt"
    /\ calls' = Append(calls, [call |-> "jwt", status |-> r.status])
    /\ IF RequestRaises(r) # "none"
       THEN UNCHANGED <<pc, token, pubkey, last>>
       ELSE /\ token' = r.content
            /\ pc' = "get_publickey"
            /\ UNCHANGED <<pubkey, last>>
    /\ UNCHANGED <<pyMajor, clock, storeVars, archivers, hcase, sessionVars>>

\* line 74: requests.post('https://ident.archivers.space/jwt').content
PostJwt(r) ==
    /\ pc = "post_jwt"
    /\ calls' = Append(calls, [call |-> "jwt", status |-> r.status])
    /\ IF RequestRaises(r) # "none"
       THEN Return(RequestRaises(r))
       ELSE /\ token' = r.content
            /\ pc' = "get_publickey"
            /\ UNCHANGED <<pubkey, last>>
    /\ UNCHANGED <<pyMajor, clock, storeVars, archivers, hcase, sessionVars>>

\* line 75: requests.get('https://ident.archivers.space/publickey').content
GetPublicKey(r) ==
    /\ pc = "get_publickey"
    /\ calls' = Append(calls, [call |-> "publickey", status |-> r.status])
    /\ IF RequestRaises(r) # "none"
       THEN Return(RequestRaises(r))
       ELSE /\ pubkey' = r.content
            /\ pc' = "decode"
            /\ UNCHANGED <<token, last>>
    /\ UNCHANGED <<pyMajor, clock, storeVars, archivers, hcase, sessionVars>>

\* lines 76-81: verify the token; any exception of jwt.decode reaches the
\* caller (DecodeError after logging, the others uncaught).  On Python 3
\* line 147 then decodes the token as utf-8, which a token that verified,
\* being base64url text, cannot fail.
Decode ==
    /\ pc = "decode"
    /\ LET exc == JwtDecode(token, pubkey)
       IN  IF exc = "none"
           THEN /\ pc' = "get_session"
                /\ UNCHANGED <<token, pubkey, last>>
           ELSE Return(exc)
    /\ UNCHANGED <<pyMajor, clock, storeVars, archivers, calls, hcase, sessionVars>>

\* a commit that also notes the answer of the report call in the run row
GetSessionRecording(r) ==
    /\ pc = "get_session"
    /\ calls' = Append(calls, [call |-> "session", status |-> r.status])
    /\ IF RequestRaises(r) # "none"
       THEN Return(RequestRaises(r))
       ELSE Return(RaiseForStatus(r.status))
    /\ runs_metadata' =
           [k \in 1 .. Len(runs_metadata) |->
               IF runs_metadata[k].run_id = archivers[last.inst].run_id
               THEN [runs_metadata[k] EXCEPT !.headers = <<"reported">>]
               ELSE runs_metadata[k]]
    /\ UNCHANGED <<pyMajor, clock, files, child_urls, archivers, hcase, sessionVars>>

\* lines 148-151: requests.get('https://ident.archivers.space/session'),
\* then raise_for_status
GetSession(r) ==
    /\ pc = "get_session"
    /\ calls' = Append(calls, [call |-> "session", status |-> r.status])
    /\ IF RequestRaises(r) # "none"
       THEN Return(RequestRaises(r))
       ELSE Return(RaiseForStatus(r.status))
    /\ UNCHANGED <<pyMajor, clock, storeVars, archivers, hcase, sessionVars>>

----------------------------------------------------------------------------
(* The program: one interpreter, one call after the other.  Spec runs      *)
(* every method on a few bodies and files; RunSpec, FileSpec and           *)
(* CommitSpec run one method on all inputs up to the bounds.               *)

CoreBodies == {<<65>>}
CoreFiles == {<<65, 200, 65>>}
CoreTokens == {GoodToken, ForgedToken}

\* the tables and the instances are within the bounds of the model
RoomFor(table, max) == Len(table) < max

Next ==
    \/ \E UUID \in UUIDs, fault \in StoreFaults,
          r \in FetchResults(FetchStatuses, {<<>>}, CoreBodies) :
           RoomFor(archivers, MaxRuns) /\ Construct("u1", UUID, r, fault)
    \/ \E i \in Instances, url \in Urls, fault \in StoreFaults :
           RoomFor(child_urls, MaxChildRows) /\ AddURL(i, url, fault)
    \/ \E i \in Instances, filename \in Filenames, comments \in Comments,
          buffer_size \in {0, MaxBuf}, file \in FileStates(CoreFiles),
          fault \in StoreFaults :
           RoomFor(files, MaxFiles)
           /\ AddFile(i, filename, comments, buffer_size, file, fault)
    \/ \E i \in Instances, keySet \in BOOLEAN : CommitCall(i, keySet)
    \/ \E r \in NetResults({200}, CoreTokens) : PostJwt(r)
    \/ \E r \in NetResults({200}, {"K1"}) : GetPublicKey(r)
    \/ Decode
    \/ \E r \in NetResults({200, 404}, {""}) : GetSession(r)

Spec == Init /\ [][Next]_vars

\* addURL from several instances while the clock advances
UrlNext ==
    \/ Tick
    \/ \E r \in FetchResults({200}, {<<>>}, CoreBodies) :
           RoomFor(archivers, MaxRuns) /\ Construct("u1", "uuid", r, "none")
    \/ \E i \in Instances, url \in Urls, fault \in StoreFaults :
           RoomFor(child_urls, MaxChildRows) /\ AddURL(i, url, fault)

UrlSpec == Init /\ [][UrlNext]_vars

\* a url whose own text holds the phrase addURL looks for in str(e)
PhraseUrl == "UNIQUE constraint failed"

FaultUrls == {"u1", PhraseUrl}

\* addURL of urls that show up in the text of the store's errors
FaultNext ==
    \/ \E r \in FetchResults({200}, {<<>>}, CoreBodies) :
           RoomFor(archivers, MaxRuns) /\ Construct("u1", "uuid", r, "none")
    \/ \E i \in Instances, url \in FaultUrls, fault \in StoreFaults :
           RoomFor(child_urls, MaxChildRows) /\ AddURL(i, url, fault)

FaultSpec == Init /\ [][FaultNext]_vars

\* addURL of the instances side by side, step by step
ConcNext ==
    \/ \E r \in FetchResults({200}, {<<>>}, CoreBodies) :
           RoomFor(archivers, MaxRuns) /\ Construct("u1", "uuid", r, "none")
    \/ \E i \in Instances, url \in Urls : SessionAdd(i, url)
    \/ \E i \in Instances, fault \in StoreFaults : SessionFlush(i, fault)
    \/ \E i \in Instances, fault \in StoreFaults : SessionCommit(i, fault)

ConcSpec == Init /\ [][ConcNext]_vars

\* construction on every fetch result
RunNext ==
    \/ Tick
    \/ \E url \in Urls, UUID \in UUIDs, fault \in StoreFaults,
          r \in FetchResults(FetchStatuses, HeaderDicts, ByteSeqs) :
           RoomFor(archivers, MaxRunRows) /\ Construct(url, UUID, r, fault)

RunSpec == Init /\ [][RunNext]_vars

\* addFile on every file and buffer_size
FileNext ==
    \/ \E r \in FetchResults({200}, {<<>>}, CoreBodies) :
           RoomFor(archivers, MaxRuns) /\ Construct("u1", "uuid", r, "none")
    \/ \E i \in Instances, filename \in Filenames, comments \in Comments,
          buffer_size \in BufferSizes, file \in FileStates(ByteSeqs),
          fault \in StoreFaults :
           RoomFor(files, MaxFiles)
           /\ AddFile(i, filename, comments, buffer_size, file, fault)

FileSpec == Init /\ [][FileNext]_vars

\* commit on every answer of the identity service and the report endpoint
CommitNext ==
    \/ \E r \in FetchResults({200}, {<<>>}, CoreBodies) :
           RoomFor(archivers, MaxRuns) /\ Construct("u1", "uuid", r, "none")
    \/ \E i \in Instances, keySet \in BOOLEAN : CommitCall(i, keySet)
    \/ \E r \in NetResults(IdentStatuses, Tokens) : PostJwt(r)
    \/ \E r \in NetResults(IdentStatuses, PubKeys) : GetPublicKey(r)
    \/ Decode
    \/ \E r \in NetResults(ReportStatuses, {""}) : GetSession(r)

CommitSpec == Init /\ [][CommitNext]_vars

----------------------------------------------------------------------------
(* The hashing pass of addFile as a function of the bytes and buffer_size *)

HashInit ==
    /\ pyMajor = 3
    /\ clock = 0
    /\ runs_metadata = <<>>
    /\ files = <<>>
    /\ child_urls = <<>>
    /\ archivers = <<>>
    /\ pc = "idle"
    /\ token = NoToken
    /\ pubkey = "unset"
    /\ calls = <<>>
    /\ last = NoCall
    /\ hcase \in [phase : {"input"}, B : SeqsUpTo(ByteVals, HashMaxLen),
                  c : 1 .. (MaxBuf + 1), chunked : {<<>>}, whole : {<<>>}]
    /\ writer = 0
    /\ session = [i \in Instances |-> NoSession]

\* hash the same bytes with buffer_size c and with buffer_size 0
HashApply ==
    /\ hcase.phase = "input"
    /\ hcase' = [hcase EXCEPT !.phase = "hashed",
                              !.chunked = FileDigestAndContents(hcase.B, hcase.c).file_SHA256,
                              !.whole = FileDigestAndContents(hcase.B, 0).file_SHA256]
    /\ UNCHANGED <<pyMajor, clock, storeVars, archivers, commitVars, calls, last,
                   sessionVars>>

HashNext == HashApply

HashSpec == HashInit /\ [][HashNext]_vars

----------------------------------------------------------------------------
(* Properties *)

\* the rows of child_urls that carry url
RowsWithUrl(url) == {k \in 1 .. Len(child_urls) : child_urls[k].url = url}

\* the names of the network calls of the latest call, in order
CallNames == [k \in 1 .. Len(calls) |-> calls[k].call]

HasCall(name) == \E k \in 1 .. Len(calls) : calls[k].call = name

\* the step is a call of method op that has just ended or, for commit, begun
CallOf(op) == last' # last /\ last'.op = op

\* C1: addURL with a url that child_urls already holds (put there by the
\* same or by another instance) raises nothing and leaves exactly one row
\* with that url, the store answering the insert with nothing but its
\* uniqueness check.
C1_DuplicateURLIsNoOp ==
    (last.op = "addURL" /\ last.present /\ last.fault = "none")
        => (last.exc = "none" /\ Cardinality(RowsWithUrl(last.arg)) = 1)

\* a duplicate addURL by an instance other than the one that owns the row
C1_Witness ==
    /\ last.op = "addURL" /\ last.present /\ last.fault = "none"
    /\ \E k \in RowsWithUrl(last.arg) :
           child_urls[k].run_id # archivers[last.inst].run_id

\* a token that verifies against a key: well formed, RS256, signed by the
\* holder of that key, not expired
TokenVerifies(t, k) ==
    t.form = "jwt" /\ t.alg = "RS256" /\ t.signer = k /\ ~t.expired

\* C2: when the token does not verify against the fetched public key, the
\* verification step ends commit with an exception for the caller and the
\* session (report) endpoint is not called.
C2_UnverifiedTokenNeverReported ==
    [][(pc = "decode" /\ ~TokenVerifies(token, pubkey))
          => (/\ pc' = "idle"
              /\ last'.op = "commit"
              /\ last'.exc \notin {"none", "running"}
              /\ CallNames' = <<"jwt", "publickey">>)]_vars

\* a commit that a tampered token has ended
C2_Witness ==
    /\ last.op = "commit" /\ last.exc = "DecodeError"
    /\ CallNames = <<"jwt", "publickey">>
    /\ pc = "idle"

\* C3: commit with MORPH_DT_API_KEY unset raises KeyError to the caller and
\* makes no network call: no token request, no public-key fetch, no report.
C3_MissingKeyNoNetwork ==
    (last.op = "commit" /\ ~last.present)
        => (last.exc = "KeyError" /\ calls = <<>> /\ pc = "idle")

C3_Witness == last.op = "commit" /\ ~last.present /\ last.exc = "KeyError"

\* C4: the digest of the hashing pass with buffer_size c >= 1 equals the
\* digest with buffer_size 0, and both are the digest of the whole byte
\* sequence.
C4_ChunkingInvariant ==
    hcase.phase = "hashed"
        => (hcase.chunked = hcase.whole /\ hcase.whole = Sha256Hex(hcase.B))

\* several reads, the last one short
C4_Witness ==
    /\ hcase.phase = "hashed"
    /\ Len(hcase.B) > hcase.c
    /\ Len(hcase.B) % hcase.c # 0

\* C5: every runs_metadata row holds the digest of the body it holds.
C5_RunDigestOfBody ==
    \A k \in 1 .. Len(runs_metadata) :
        runs_metadata[k].body_SHA256 = Sha256Hex(runs_metadata[k].body_content)

\* a persisted run of each interpreter, with a non-empty body
C5_Witness ==
    /\ pyMajor = 2
    /\ Len(runs_metadata) >= 1
    /\ Len(runs_metadata[1].body_content) >= 1

\* C6: addURL with a url that child_urls does not hold appends its row,
\* whatever other urls the table holds, and keeps every row that was there.
C6_DistinctURLsBothPersist ==
    [][(CallOf("addURL") /\ ~last'.present /\ last'.fault = "none")
          => (/\ last'.exc = "none"
              /\ Len(child_urls') = Len(child_urls) + 1
              /\ SubSeq(child_urls', 1, Len(child_urls)) = child_urls
              /\ child_urls'[Len(child_urls')].url = last'.arg
              /\ child_urls'[Len(child_urls')].run_id = archivers[last'.inst].run_id)]_vars

\* two rows with different urls, the second just added by addURL
C6_Witness ==
    /\ last.op = "addURL" /\ ~last.present /\ last.exc = "none"
    /\ Len(child_urls) = 2
    /\ child_urls[1].url # child_urls[2].url
    /\ child_urls[2].url = last.arg

\* C7: the calls of a commit are a prefix of token request, public-key
\* fetch, report call; the report call is reached only with a token that
\* verifies; commit returns normally only after a report call answered with
\* success (2xx); a commit that has ended is at no step of the handshake.
C7_HandshakeOrder ==
    /\ last.op # "commit" => pc = "idle"
    /\ last.op = "commit" =>
        /\ \E n \in 0 .. 3 : CallNames = SubSeq(<<"jwt", "publickey", "session">>, 1, n)
        /\ pc = "get_session" => TokenVerifies(token, pubkey)
        /\ (pc = "idle" /\ last.exc = "none")
              => (CallNames = <<"jwt", "publickey", "session">> /\ calls[3].status \in 200 .. 299)
        /\ last.exc # "running" <=> pc = "idle"

\* C8: a commit whose report call was answered with a status other than 200
\* ends with an exception for the caller.
C8_NonSuccessReportRaises ==
    (last.op = "commit" /\ pc = "idle" /\ HasCall("session")
       /\ calls[Len(calls)].status # 200)
        => last.exc \notin {"none", "running"}

\* C9 as stated: a construction whose fetch was answered with success adds
\* one row, and a construction whose fetch failed or was answered with a
\* non-success status adds none.
C9_RowOnlyForSuccessStatus ==
    [][CallOf("init")
          => (/\ (last'.status = 200 /\ last'.exc = "none")
                    => Len(runs_metadata') = Len(runs_metadata) + 1
              /\ last'.status # 200 => runs_metadata' = runs_metadata)]_vars

\* C9 amended: a construction that returns adds exactly one row, its own,
\* and keeps the others; one that raises adds none; requests.get raising
\* makes it raise, and a response of any status, 404 as well as 200, makes
\* it return unless hashing the body (Python 2, a byte >= 128) or the
\* insert raises.
C9_RowIffConstructed ==
    [][CallOf("init")
          => (/\ last'.exc = "none"
                    => (/\ Len(runs_metadata') = Len(runs_metadata) + 1
                        /\ SubSeq(runs_metadata', 1, Len(runs_metadata)) = runs_metadata
                        /\ runs_metadata'[Len(runs_metadata')].url = last'.arg
                        /\ runs_metadata'[Len(runs_metadata')].run_id
                               = archivers'[last'.inst].run_id)
              /\ last'.exc # "none" => runs_metadata' = runs_metadata
              /\ last'.status = 0 => last'.exc = "ConnectionError"
              /\ (last'.status # 0 /\ last'.fault = "none" /\ last'.exc # "none")
                    => (pyMajor = 2 /\ last'.exc = "UnicodeDecodeError"))]_vars

\* a run row written for a fetch answered 404
C9_Witness ==
    /\ last.op = "init" /\ last.status = 404 /\ last.exc = "none"
    /\ Len(runs_metadata) >= 1
    /\ runs_metadata[Len(runs_metadata)].run_id = archivers[last.inst].run_id

\* C10: every files row holds the digest of the contents it holds, whatever
\* buffer_size addFile was called with.
C10_FileDigestOfContents ==
    \A k \in 1 .. Len(files) :
        files[k].file_SHA256 = Sha256Hex(files[k].file_contents)

\* a file stored after a hashing pass of several reads
C10_Witness ==
    /\ last.op = "addFile" /\ last.exc = "none"
    /\ last.status >= 1
    /\ Len(files) >= 1
    /\ Len(files[Len(files)].file_contents) > last.status

\* table t is kept whole by the step: its rows are the first rows after it
Kept(t, tNext) ==
    Len(tNext) >= Len(t) /\ SubSeq(tNext, 1, Len(t)) = t

\* the number of rows the step adds to table t
Added(t, tNext) == Len(tNext) - Len(t)

\* C11: in every step each table keeps all its rows with their values; a
\* step adds at most one row in all; construction adds to runs_metadata
\* only, addURL to child_urls only, addFile to files only, and the steps of
\* commit add nothing.
C11_AppendOnly ==
    [][/\ Kept(runs_metadata, runs_metadata')
       /\ Kept(files, files')
       /\ Kept(child_urls, child_urls')
       /\ Added(runs_metadata, runs_metadata') + Added(files, files')
              + Added(child_urls, child_urls') <= 1
       /\ Added(runs_metadata, runs_metadata') = 1 => last'.op = "init"
       /\ Added(child_urls, child_urls') = 1 => last'.op = "addURL"
       /\ Added(files, files') = 1 => last'.op = "addFile"]_vars

\* all three tables hold rows, the last one added to files after the others
C11_Witness ==
    /\ last.op = "addFile" /\ last.exc = "none"
    /\ Len(runs_metadata) = 2
    /\ Len(child_urls) = 2
    /\ Len(files) = 1

\* C12: no step of commit, however commit ends, changes a table or the
\* run_id, content_hash and headers of an instance.
C12_CommitLeavesStore ==
    [][(pc # "idle" \/ last'.op = "commit")
          => (/\ runs_metadata' = runs_metadata
              /\ files' = files
              /\ child_urls' = child_urls
              /\ archivers' = archivers)]_vars

\* a commit that returned on a store with rows in every table
C12_Witness ==
    /\ last.op = "commit" /\ last.exc = "none" /\ pc = "idle"
    /\ Len(runs_metadata) >= 1
    /\ Len(child_urls) >= 1
    /\ Len(files) >= 1

\* the calls of the latest call that went to the named endpoint
CallsTo(name) == {k \in 1 .. Len(calls) : calls[k].call = name}

\* C13: a commit makes each of its three network calls at most once; one
\* that returns normally has made exactly the token request, the public-key
\* fetch and the report call; one that has raised is over, and the call log
\* of a commit that is over does not grow.
C13_NoRepeatedCalls ==
    /\ [](last.op = "commit" =>
            /\ \A name \in {"jwt", "publickey", "session"} :
                   Cardinality(CallsTo(name)) <= 1
            /\ Len(calls) <= 3
            /\ last.exc = "none" => CallNames = <<"jwt", "publickey", "session">>
            /\ last.exc \notin {"none", "running"} => pc = "idle")
    /\ [][(last.op = "commit" /\ last.exc # "running" /\ last' = last)
             => calls' = calls]_vars

\* a commit ended by a failed public-key fetch, after one token request
C13_Witness ==
    /\ last.op = "commit" /\ last.exc = "ConnectionError"
    /\ CallNames = <<"jwt", "publickey">>
    /\ pc = "idle"

\* C14: an insert by addURL that the store refuses is swallowed exactly when
\* the refusal is the unique constraint on url; a refusal of any other kind
\* is raised as it is; either way the url has the rows it had before.
C14_SwallowsOnlyUniqueViolation ==
    (last.op = "addURL" /\ (last.fault # "none" \/ last.present)) =>
        /\ last.exc = "none" <=> (last.fault = "none" /\ last.present)
        /\ last.fault # "none" => last.exc = last.fault
        /\ Cardinality(RowsWithUrl(last.arg)) = IF last.present THEN 1 ELSE 0

\* a store error of another kind on a url whose text holds the phrase
C14_Witness ==
    /\ last.op = "addURL" /\ last.arg = PhraseUrl
    /\ last.fault = "OperationalError" /\ last.exc = "OperationalError"
    /\ ~last.present
    /\ Len(child_urls) >= 1

\* C15: when instances run addURL side by side, no url ever has two rows,
\* and every call the store answered with nothing but its constraint check
\* ends without an exception and with one row for its url.
C15_ConcurrentDuplicatesOneRow ==
    /\ \A url \in Urls : Cardinality(RowsWithUrl(url)) <= 1
    /\ \A i \in Instances :
           (session[i].step = "closed" /\ session[i].fault = "none") =>
               /\ session[i].exc = "none"
               /\ Cardinality(RowsWithUrl(session[i].row.url)) = 1

\* two calls for one url that both began before the url had a row
C15_Witness ==
    \E i, j \in Instances :
        /\ i # j
        /\ session[i].step = "closed" /\ session[j].step = "closed"
        /\ session[i].row.url = session[j].row.url
        /\ ~session[i].present /\ ~session[j].present
        /\ session[i].fault = "none" /\ session[j].fault = "none"
        /\ session[i].exc = "none" /\ session[j].exc = "none"
        /\ Cardinality(RowsWithUrl(session[i].row.url)) = 1

\* C16: addFile of a file that cannot be opened, or cannot be read, raises
\* IOError and leaves the three tables as they were.
C16_UnreadableFileNoRow ==
    [][(last'.op = "addFile" /\ ~last'.present)
          => (/\ last'.exc = "IOError"
              /\ runs_metadata' = runs_metadata
              /\ files' = files
              /\ child_urls' = child_urls)]_vars

\* addFile of such a file, raised, on a store that holds rows of the run
C16_Witness ==
    /\ last.op = "addFile" /\ ~last.present
    /\ last.exc = "IOError"
    /\ files = <<>>
    /\ Len(child_urls) >= 1

\* the run rows with the given key
RunsWithId(run_id) ==
    {m \in 1 .. Len(runs_metadata) : runs_metadata[m].run_id = run_id}

\* C17: the run_id of every child_urls row and of every files row is the
\* key of exactly one runs_metadata row; the row a call of addURL or addFile
\* has just inserted carries the run_id of the instance it was called on;
\* and every instance there is has its run row in the table, so no child
\* row is written before the run row.
C17_ReferentialIntegrity ==
    /\ \A k \in 1 .. Len(child_urls) :
           Cardinality(RunsWithId(child_urls[k].run_id)) = 1
    /\ \A k \in 1 .. Len(files) :
           Cardinality(RunsWithId(files[k].run_id)) = 1
    /\ (last.op = "addURL" /\ last.exc = "none" /\ ~last.present) =>
           child_urls[Len(child_urls)].run_id = archivers[last.inst].run_id
    /\ (last.op = "addFile" /\ last.exc = "none") =>
           files[Len(files)].run_id = archivers[last.inst].run_id
    /\ \A i \in 1 .. Len(archivers) :
           \E m \in RunsWithId(archivers[i].run_id) :
               /\ runs_metadata[m].url = archivers[i].url
               /\ runs_metadata[m].body_SHA256 = archivers[i].content_hash

\* child rows of two runs, and a file row of the second
C17_Witness ==
    /\ Len(runs_metadata) = 2
    /\ \E k, n \in 1 .. Len(child_urls) :
           child_urls[k].run_id = 1 /\ child_urls[n].run_id = 2
    /\ Len(files) = 1 /\ files[1].run_id = 2
    /\ last.op = "addFile" /\ last.inst = 2

\* C18: a call of addURL for a url that already has a row, whichever
\* instance makes it and whenever, leaves child_urls as it was: the row
\* keeps the run_id and the timestamp of the call that inserted it.
C18_FirstWriterWins ==
    [][(last'.op = "addURL" /\ last'.present /\ clock' = clock)
          => (/\ child_urls' = child_urls
              /\ \A k \in RowsWithUrl(last'.arg) :
                     /\ child_urls'[k].run_id = child_urls[k].run_id
                     /\ child_urls'[k].timestamp = child_urls[k].timestamp)]_vars

\* the url was added by another run at an earlier time, and the later call
\* returned with the first run's row in place
C18_Witness ==
    /\ last.op = "addURL" /\ last.present /\ last.exc = "none"
    /\ \E k \in RowsWithUrl(last.arg) :
           /\ child_urls[k].run_id # archivers[last.inst].run_id
           /\ child_urls[k].timestamp < clock

====
